---- MODULE Spec2Model ----
(***************************************************************************)
(* Model of app1.py: a Flask application over an owlready2 ontology store. *)
(*                                                                         *)
(* Representation.                                                         *)
(*  - A Python str is a sequence of one-character strings, so that strip,  *)
(*    split('_'), lower, float() and str() are computed, not assumed.      *)
(*  - A Python float is an integer count of 1/Scale units.  The inputs of  *)
(*    the model are chosen so that every product the code forms is exact   *)
(*    at that scale (pi is taken as 3.1416).  A quotient of two small      *)
(*    integers (masteryLevel) is kept as a reduced fraction <<p, q>>.      *)
(*  - An optional value is a sequence of length at most one: None is <<>>. *)
(*  - The ontology declares every class and property the code names, all   *)
(*    properties non-functional (the code reads x.prop[0] and assigns      *)
(*    lists), so hasattr(ind, prop) is true and getattr yields a list.     *)
(*  - owlready2: Class(name) returns the individual already bearing that   *)
(*    name when there is one; list properties are Python lists.            *)
(***************************************************************************)
EXTENDS Integers, Sequences, FiniteSets, TLC

VARIABLES
    ind,     \* the in-memory ontology: individual name -> attribute record
    disk,    \* the ontology file as last written by save_ontology
    now,     \* datetime.utcnow(), in whole seconds
    flash,   \* messages flashed by the latest request, and the value shown
    view,    \* what problem_view last handed to problem.html
    call,    \* the latest direct call of approx_equal: arguments and result
    req      \* the requests being served by threads: position and locals

vars == <<ind, disk, now, flash, view, call, req>>

-----------------------------------------------------------------------------
\* Bounds of the model.
MaxAttempts == 2     \* entries the attempts lists may reach in all
MaxDims == 3     \* longest dimension list drawn for a loaded problem

\* the clock seconds the requests fall in
Seconds == {0, 1}

\* Fixed-point scale of the float representation (four decimal digits).
Scale == 100 * 100

None    == <<>>
Some(v) == <<v>>

-----------------------------------------------------------------------------
\* Python str primitives.

DigitChars == <<"0", "1", "2", "3", "4", "5", "6", "7", "8", "9">>
UpperChars == <<"A","B","C","D","E","F","G","H","I","J","K","L","M",
                "N","O","P","Q","R","S","T","U","V","W","X","Y","Z">>
LowerChars == <<"a","b","c","d","e","f","g","h","i","j","k","l","m",
                "n","o","p","q","r","s","t","u","v","w","x","y","z">>

IsDigit(c) == \E i \in 1..10 : DigitChars[i] = c
DigitVal(c) == (CHOOSE i \in 1..10 : DigitChars[i] = c) - 1

LowerChar(c) ==
    IF \E i \in 1..26 : UpperChars[i] = c
    THEN LowerChars[CHOOSE i \in 1..26 : UpperChars[i] = c]
    ELSE c

\* str.lower()
Lower(t) == [i \in 1..Len(t) |-> LowerChar(t[i])]

RECURSIVE LStrip(_)
LStrip(t) == IF t # <<>> /\ Head(t) = " " THEN LStrip(Tail(t)) ELSE t

RECURSIVE RStrip(_)
RStrip(t) ==
    IF t # <<>> /\ t[Len(t)] = " " THEN RStrip(SubSeq(t, 1, Len(t) - 1)) ELSE t

\* str.strip()
Strip(t) == RStrip(LStrip(t))

\* c in t
Contains(t, c) == \E i \in 1..Len(t) : t[i] = c

\* t.split(c)[0]
RECURSIVE SplitHead(_, _)
SplitHead(t, c) ==
    IF t = <<>> \/ Head(t) = c THEN <<>>
    ELSE <<Head(t)>> \o SplitHead(Tail(t), c)

RECURSIVE DigitsVal(_)
DigitsVal(t) ==
    IF t = <<>> THEN 0
    ELSE DigitsVal(SubSeq(t, 1, Len(t) - 1)) * 10 + DigitVal(t[Len(t)])

RECURSIVE IntStr(_)
IntStr(n) ==
    IF n < 10 THEN <<DigitChars[n + 1]>>
    ELSE IntStr(n \div 10) \o <<DigitChars[(n % 10) + 1]>>

RECURSIVE TrimZeros(_)
TrimZeros(t) ==
    IF Len(t) > 1 /\ t[Len(t)] = "0" THEN TrimZeros(SubSeq(t, 1, Len(t) - 1))
    ELSE t

Zeros(n) == [i \in 1..n |-> "0"]

FracDigits == Len(IntStr(Scale)) - 1

\* float() on the digits before and after the point
ParseDigits(neg, ip, fp) ==
    IF /\ \A i \in 1..Len(ip) : IsDigit(ip[i])
       /\ \A i \in 1..Len(fp) : IsDigit(fp[i])
       /\ Len(ip) + Len(fp) > 0
    THEN Some((IF neg THEN 0 - 1 ELSE 1)
                * (DigitsVal(ip) * Scale
                     + DigitsVal(SubSeq(fp \o Zeros(FracDigits), 1, FracDigits))))
    ELSE None

\* float() on the text after the sign
ParseBody(neg, body) ==
    ParseDigits(neg, SplitHead(body, "."),
                SubSeq(body, Len(SplitHead(body, ".")) + 2, Len(body)))

\* float() on a text without surrounding blanks
ParseSigned(s) ==
    ParseBody(s # <<>> /\ Head(s) = "-",
              IF s # <<>> /\ Head(s) \in {"-", "+"} THEN Tail(s) ELSE s)

\* float(text): optional surrounding blanks, optional sign, decimal digits
\* with an optional point and at least one digit; None stands for ValueError.
\* (Exponents, "inf", "nan" and digit-group underscores are outside the texts
\* the model draws.)
ParseFloat(text) == ParseSigned(Strip(text))

\* str(float): repr with at least one fractional digit ("3.0", "2.5", "-0.5")
FloatStr(v) ==
    LET mag  == IF v < 0 THEN 0 - v ELSE v
        frac == IntStr(mag % Scale)
        pad  == Zeros(FracDigits - Len(frac)) \o frac
    IN  (IF v < 0 THEN <<"-">> ELSE <<>>)
          \o IntStr(mag \div Scale) \o <<".">> \o TrimZeros(pad)

-----------------------------------------------------------------------------
\* Python values held by data properties: a float or a str.
F(v) == [kind |-> "float", v |-> v, s |-> <<>>]
S(s) == [kind |-> "str", v |-> 0, s |-> s]

\* str(x)
PyStr(x) == IF x.kind = "float" THEN FloatStr(x.v) ELSE x.s

\* float(x), None standing for ValueError / TypeError
PyFloat(x) == IF x.kind = "float" THEN Some(x.v) ELSE ParseFloat(x.s)

Abs(n) == IF n < 0 THEN 0 - n ELSE n
Max(a, b) == IF a >= b THEN a ELSE b

\* a * b on floats: |a| * |b| / Scale, formed from the whole and the
\* fractional part of |a| to stay within 32-bit integers
Mul(a, b) ==
    LET x == Abs(a)
        y == Abs(b)
        m == (x \div Scale) * y + ((x % Scale) * y) \div Scale
    IN  IF (a < 0) = (b < 0) THEN m ELSE 0 - m

RECURSIVE GCD(_, _)
GCD(a, b) == IF b = 0 THEN a ELSE GCD(b, a % b)

\* float(a) / float(b) for integers a >= 0, b >= 1
Ratio(a, b) == LET g == GCD(a, b) IN <<a \div g, b \div g>>

-----------------------------------------------------------------------------
\* Names used by the code and the ontology.

Txt_Problem   == <<"P","r","o","b","l","e","m">>
Txt_Student   == <<"S","t","u","d","e","n","t">>
Txt_Attempt   == <<"A","t","t","e","m","p","t">>
Txt_Dimension == <<"D","i","m","e","n","s","i","o","n">>
Txt_Shape     == <<"S","h","a","p","e">>
Txt_Circle    == <<"C","i","r","c","l","e">>
Txt_Square    == <<"S","q","u","a","r","e">>
Txt_Rectangle == <<"R","e","c","t","a","n","g","l","e">>
Txt_Triangle  == <<"T","r","i","a","n","g","l","e">>

\* the classes of area_ontology.owl that the code asks for
Classes == {Txt_Problem, Txt_Student, Txt_Attempt, Txt_Dimension, Txt_Shape,
            Txt_Circle, Txt_Square, Txt_Rectangle, Txt_Triangle}

KnownShapes == {Txt_Circle, Txt_Square, Txt_Rectangle, Txt_Triangle}

Student_Anonymous ==
    <<"S","t","u","d","e","n","t","_","A","n","o","n","y","m","o","u","s">>

\* math.pi
pi == 31416

\* defaults of approx_equal
rel_tol == (2 * Scale) \div 100
abs_tol == (5 * Scale) \div 100

-----------------------------------------------------------------------------
\* The store.

\* A freshly created individual of class cls: every property an empty list.
NewIndividual(cls) ==
    [is_a |-> <<cls>>, hasShape |-> <<>>, hasProblemDimension |-> <<>>,
     hasDimension |-> <<>>, dimensionName |-> <<>>, dimensionValue |-> <<>>,
     correctAnswer |-> <<>>, attemptOf |-> <<>>, hasAnswer |-> <<>>,
     isCorrect |-> <<>>, attempts |-> <<>>, studentScore |-> <<>>,
     masteryLevel |-> <<>>]

InList(x, l) == \E i \in 1..Len(l) : l[i] = x

\* Class(name): the individual of that name, created if there is none; an
\* existing individual of another class gains the class.
Instantiate(I, cls, name) ==
    IF name \in DOMAIN I
    THEN IF InList(cls, I[name].is_a) THEN I
         ELSE [I EXCEPT ![name].is_a = Append(@, cls)]
    ELSE [n \in DOMAIN I \cup {name} |->
            IF n = name THEN NewIndividual(cls) ELSE I[n]]

\* getattr(onto, class_name, None) for a class
get_onto_class(class_name) ==
    IF class_name \in Classes THEN Some(class_name) ELSE None

\* get_individual(short_name): the individual of that local name, or None
get_individual(I, short_name) ==
    IF short_name \in DOMAIN I THEN Some(short_name) ELSE None

InstancesOf(I, cls) == {n \in DOMAIN I : InList(cls, I[n].is_a)}

all_problems(I) == InstancesOf(I, Txt_Problem)
all_students(I) == InstancesOf(I, Txt_Student)
all_attempts(I) == InstancesOf(I, Txt_Attempt)

-----------------------------------------------------------------------------
\* The answer engine.

\* one (name, value) pair of dims_for_problem, for the individual record d
DimPair(d) ==
    LET name == IF d.dimensionName # <<>> THEN d.dimensionName[1] ELSE <<>>
        val  == IF d.dimensionValue # <<>>
                THEN PyStr(d.dimensionValue[1])
                ELSE <<"[", "]">>              \* str([])
    IN  <<name, Some(val)>>

dims_for_problem(I, problem) ==
    LET p == I[problem]
    IN  IF p.hasProblemDimension # <<>>
        THEN [i \in 1..Len(p.hasProblemDimension) |->
                DimPair(I[p.hasProblemDimension[i]])]
        ELSE IF p.hasDimension # <<>>
        THEN [i \in 1..Len(p.hasDimension) |-> DimPair(I[p.hasDimension[i]])]
        ELSE IF p.dimensionValue # <<>>
        THEN << <<IF p.dimensionName # <<>> THEN p.dimensionName[1] ELSE <<>>,
                  Some(PyStr(p.dimensionValue[1]))>> >>
        ELSE <<>>

\* shape_for_problem: <<shape_class_name, shape_individual>>, both optional
shape_for_problem(I, problem) ==
    IF I[problem].hasShape = <<>> THEN <<None, None>>
    ELSE LET s     == I[problem].hasShape[1]
             is_a  == I[s].is_a
             known == {i \in 1..Len(is_a) : is_a[i] \in KnownShapes}
             hint  == SplitHead(s, "_")
         IN  IF known # {}
             THEN <<Some(is_a[CHOOSE i \in known : \A j \in known : i <= j]),
                    Some(s)>>
             ELSE IF s # <<>> /\ Contains(s, "_") /\ hint \in KnownShapes
             THEN <<Some(hint), Some(s)>>
             ELSE IF is_a # <<>> THEN <<Some(is_a[1]), Some(s)>>
             ELSE <<None, Some(s)>>

\* float(v) if v is not None else None, ValueError/TypeError giving None
FloatOrNone(v) == IF v = None THEN None ELSE ParseFloat(v[1])

\* the value get_val converts: that of the first dimension named by one of
\* names (case-insensitive), else that of the only dimension, else None
PickValue(dims, names) ==
    LET target_names == {Lower(names[k]) : k \in 1..Len(names)}
        hits == {i \in 1..Len(dims) :
                    dims[i][1] # <<>> /\ Lower(dims[i][1]) \in target_names}
    IN  IF hits # {} THEN dims[CHOOSE i \in hits : \A j \in hits : i <= j][2]
        ELSE IF Len(dims) = 1 THEN dims[1][2]
        ELSE None

\* compute_answer.get_val
get_val(dims, names) == FloatOrNone(PickValue(dims, names))

Txt_radius == <<"r","a","d","i","u","s">>
Txt_side   == <<"s","i","d","e">>
Txt_length == <<"l","e","n","g","t","h">>
Txt_width  == <<"w","i","d","t","h">>
Txt_base   == <<"b","a","s","e">>
Txt_height == <<"h","e","i","g","h","t">>

\* None if l is None or w is None, else l * w
Product(l, w) == IF l = None \/ w = None THEN None ELSE Some(Mul(l[1], w[1]))

\* the Rectangle branch of compute_answer, after the two lookups by name
RectangleFrom(dims, l, w) ==
    IF /\ l = None \/ w = None
       /\ Len(dims) >= 2
       /\ dims[1][2] # None
       /\ dims[2][2] # None
    THEN Product(ParseFloat(dims[1][2][1]), ParseFloat(dims[2][2][1]))
    ELSE Product(l, w)

\* the Rectangle branch of compute_answer
RectangleAnswer(dims) ==
    RectangleFrom(dims, get_val(dims, <<Txt_length, <<"l">>>>),
                        get_val(dims, <<Txt_width, <<"w">>>>))

\* None if b is None or h is None, else 0.5 * b * h
HalfProduct(b, h) ==
    IF b = None \/ h = None THEN None
    ELSE Some(Mul(Mul(Scale \div 2, b[1]), h[1]))

\* the Triangle branch of compute_answer
TriangleAnswer(dims) ==
    HalfProduct(get_val(dims, <<Txt_base, <<"b">>>>),
                get_val(dims, <<Txt_height, <<"h">>>>))

\* None if r is None else pi * r * r
CircleArea(r) == IF r = None THEN None ELSE Some(Mul(Mul(pi, r[1]), r[1]))

\* None if s is None else s * s
SquareArea(s) == IF s = None THEN None ELSE Some(Mul(s[1], s[1]))

\* compute_answer's dispatch on the shape name
AnswerFor(shape_name, dims) ==
    IF shape_name = Some(Txt_Circle)
    THEN CircleArea(get_val(dims, <<Txt_radius, <<"r">>>>))
    ELSE IF shape_name = Some(Txt_Square)
    THEN SquareArea(get_val(dims, <<Txt_side, <<"s">>>>))
    ELSE IF shape_name = Some(Txt_Rectangle) THEN RectangleAnswer(dims)
    ELSE IF shape_name = Some(Txt_Triangle) THEN TriangleAnswer(dims)
    ELSE None

compute_answer(I, problem) ==
    AnswerFor(shape_for_problem(I, problem)[1], dims_for_problem(I, problem))

\* float(x) of an argument of approx_equal, None when float() raises
FloatArg(x) == IF x = None THEN None ELSE PyFloat(x[1])

\* a variant of WithinTolerance whose tolerance is relative to the first
\* argument
WithinTolerance_first(fa, fb) ==
    IF fa = None \/ fb = None THEN FALSE
    ELSE Abs(fa[1] - fb[1]) * Scale
           <= Max(abs_tol * Scale, rel_tol * Abs(fa[1]))

\* abs(a - b) <= max(abs_tol, rel_tol * abs(b)) on the converted arguments,
\* False when a conversion failed.  Both sides are multiplied by Scale, so
\* that the product rel_tol * abs(b) is not rounded.
WithinTolerance(fa, fb) ==
    IF fa = None \/ fb = None THEN FALSE
    ELSE Abs(fa[1] - fb[1]) * Scale
           <= Max(abs_tol * Scale, rel_tol * Abs(fb[1]))

\* approx_equal(a, b) with the default tolerances, on optional Python values
approx_equal(a, b) == WithinTolerance(FloatArg(a), FloatArg(b))

-----------------------------------------------------------------------------
\* Requests.

Flash(msgs, expected) == [msgs |-> msgs, expected |-> expected]

\* the threads of the development server (app.run serves each request in a
\* thread of its own); two are enough for two requests to overlap
Requests == {1, 2}

\* the locals of a problem_submit request and its position in the handler:
\* "idle" (no request), then "read" (before line 361), "count" (before line
\* 364), "write" (before line 366), "save" (before line 383)
RequestLocals(pc, name, student, answer, correct, is_correct, score, n) ==
    [pc |-> pc, name |-> name, student_name |-> student,
     answer_val |-> answer, correct_val |-> correct,
     is_correct |-> is_correct, curr_score |-> score, num_attempts |-> n]

IdleRequest == RequestLocals("idle", <<>>, <<>>, 0, 0, FALSE, 0, 0)

NoRequests == [r \in Requests |-> IdleRequest]

\* round(x, 3): to the nearest 1/1000, ties to even
Round3(v) ==
    LET unit == Scale \div 1000
        mag  == Abs(v)
        q    == mag \div unit
        r    == mag % unit
        up   == 2 * r > unit \/ (2 * r = unit /\ q % 2 = 1)
        res  == (IF up THEN q + 1 ELSE q) * unit
    IN  IF v < 0 THEN 0 - res ELSE res

\* strftime("%Y%m%dT%H%M%S") of the clock: one text per second
Timestamp(t) == <<"T">> \o IntStr(t)

\* save_ontology: the file takes the whole in-memory store (onto.save is
\* taken to succeed; its failure is flashed and changes nothing else)
save_ontology(I) == I

\* GET /problem/<name>
problem_view(name) ==
    LET prob == get_individual(ind, name)
    IN  /\ IF prob = None
           THEN /\ flash' = Flash(<<"problem not found">>, None)
                /\ view' = None
           ELSE /\ flash' = Flash(<<>>, None)
                /\ view' = Some(
                     [problem    |-> name,
                      dims       |-> dims_for_problem(ind, name),
                      shape_name |-> shape_for_problem(ind, name)[1],
                      computed   |-> compute_answer(ind, name),
                      stored     |-> IF ind[name].correctAnswer # <<>>
                                     THEN Some(ind[name].correctAnswer[1])
                                     ELSE None])
        /\ UNCHANGED <<ind, disk, now, call, req>>

\* number of entries in all attempts lists
AttemptsLogged(I) ==
    Cardinality({<<n, i>> \in (DOMAIN I) \X (1..MaxAttempts) :
                    i <= Len(I[n].attempts)})

\* f"Attempt_{student.name}_{prob.name}_{timestamp}"
AttemptName(student_name, name, t) ==
    Txt_Attempt \o <<"_">> \o student_name \o <<"_">> \o name \o <<"_">>
      \o Timestamp(t)

\* the student is created if no individual bears the name (its score and
\* mastery lists stay the empty lists they are)
StudentStore(I, student_name) ==
    IF get_individual(I, student_name) = None
    THEN Instantiate(I, Txt_Student, student_name)
    ELSE I

\* the attempt is created, given its three values and appended to the
\* student's attempts
AttemptStore(I, att_name, name, student_name, answer_val, is_correct) ==
    [Instantiate(I, Txt_Attempt, att_name) EXCEPT
       ![att_name].attemptOf = <<name>>,
       ![att_name].hasAnswer = <<answer_val>>,
       ![att_name].isCorrect = <<is_correct>>,
       ![student_name].attempts = Append(@, att_name)]

\* curr_score after "if is_correct: curr_score += 1"
curr_score(studentScore, is_correct) ==
    (IF studentScore # <<>> THEN studentScore[1] ELSE 0)
      + (IF is_correct THEN 1 ELSE 0)

\* a variant of num_attempts that counts before the attempt is appended
num_attempts_before(I, student_name) == Len(I[student_name].attempts) - 1

\* num_attempts = len(getattr(student, "attempts", []))
num_attempts(I, student_name) == Len(I[student_name].attempts)

\* the student's score and mastery are rewritten
ScoreStore(I, student_name, is_correct) ==
    [I EXCEPT
       ![student_name].studentScore =
           <<curr_score(I[student_name].studentScore, is_correct)>>,
       ![student_name].masteryLevel =
           <<Ratio(curr_score(I[student_name].studentScore, is_correct),
                   Max(1, num_attempts(I, student_name)))>>]

\* problem_submit from the creation of the student on: the graded part.
\* (The closing "store problem.correctAnswer if missing" never applies: the
\* property reads as a list, which is not None.)
GradedStore(I, name, student_name, answer_val, is_correct, t) ==
    ScoreStore(
        AttemptStore(StudentStore(I, student_name),
                     AttemptName(student_name, name, t),
                     name, student_name, answer_val, is_correct),
        student_name, is_correct)

\* the stored answer as a float, None when there is none or it is no number
StoredValue(stored_answer) ==
    IF stored_answer # <<>> THEN PyFloat(stored_answer[1]) ELSE None

\* a variant of OrStored that tests the stored number for truth, so that a
\* stored 0 counts as no answer
OrStored_truthy(computed, stored_answer) ==
    IF computed # None THEN computed
    ELSE IF StoredValue(stored_answer) = Some(0) THEN None
    ELSE StoredValue(stored_answer)

\* the computed answer, else the stored one
OrStored(computed, stored_answer) ==
    IF computed # None THEN computed ELSE StoredValue(stored_answer)

\* the correct value problem_submit grades against, or None
CorrectValue(I, name) ==
    OrStored(compute_answer(I, name), I[name].correctAnswer)

\* a variant of answer_value that takes a text that is no number for 0
answer_value_default(answer) ==
    IF answer = None \/ ParseFloat(answer[1]) = None THEN Some(0)
    ELSE ParseFloat(answer[1])

\* float(answer_text) under try/except: None when the text is no number
answer_value(answer) ==
    IF answer = None THEN None ELSE ParseFloat(answer[1])

\* request.form.get("student").strip() or "Student_Anonymous"
StudentName(student) ==
    IF Strip(student) # <<>> THEN Strip(student) ELSE Student_Anonymous

\* the graded store is kept and saved, and the verdict flashed
Recorded(I, is_correct, correct_val) ==
    /\ flash' = Flash(<<IF is_correct THEN "correct" ELSE "incorrect">>,
                      Some(Round3(correct_val)))
    /\ ind' = I
    /\ disk' = save_ontology(I)

\* problem_submit on the converted answer and the correct value
Graded(name, student_name, answer_val, correct_val) ==
    IF answer_val = None
    THEN /\ flash' = Flash(<<"invalid answer">>, None)
         /\ UNCHANGED <<ind, disk>>
    ELSE IF correct_val = None
    THEN /\ flash' = Flash(<<"cannot compute">>, None)
         /\ UNCHANGED <<ind, disk>>
    ELSE Recorded(
           GradedStore(ind, name, student_name, answer_val[1],
                       approx_equal(Some(F(answer_val[1])),
                                    Some(F(correct_val[1]))),
                       now),
           approx_equal(Some(F(answer_val[1])), Some(F(correct_val[1]))),
           correct_val[1])

\* POST /problem/<name>/submit; student and answer are the optional form
\* fields
problem_submit(name, student, answer) ==
    /\ AttemptsLogged(ind) < MaxAttempts
    /\ view' = view /\ now' = now /\ call' = call /\ req' = req
    /\ IF get_individual(ind, name) = None
       THEN /\ flash' = Flash(<<"problem not found">>, None)
            /\ UNCHANGED <<ind, disk>>
       ELSE IF student = None
       THEN \* None.strip(): the request fails with an unhandled error
            /\ flash' = Flash(<<"internal server error">>, None)
            /\ UNCHANGED <<ind, disk>>
       ELSE Graded(name, StudentName(student[1]), answer_value(answer),
                   CorrectValue(ind, name))


\* getattr(onto, shape, None) in add_problem: a class of the ontology, or
\* whatever other entity bears the name (an individual, which cannot be
\* called), or None
ShapeLookup(I, shape) ==
    IF shape \in Classes THEN "class"
    ELSE IF shape \in DOMAIN I THEN "individual"
    ELSE "none"

Txt_inst == <<"_","i","n","s","t","_">>
Txt_dim1 == <<"d","i","m","1">>
Txt_dim2 == <<"d","i","m","2">>

\* the shape instance is created and linked to the problem
ShapeStore(I, name, shape) ==
    [Instantiate(I, shape, shape \o Txt_inst \o name) EXCEPT
       ![name].hasShape = <<shape \o Txt_inst \o name>>]

\* a Dimension individual is created and named
DimensionStore(I, id, dim_name, default) ==
    [Instantiate(I, Txt_Dimension, id) EXCEPT
       ![id].dimensionName = <<IF dim_name # <<>> THEN dim_name ELSE default>>]

\* float(d1_value) and the link of dimension 1: <<store, completed>>
ValueOne(I, name, id, v1) ==
    IF v1 = None THEN <<I, FALSE>>
    ELSE <<[I EXCEPT ![id].dimensionValue = <<F(v1[1])>>,
                     ![name].hasProblemDimension = <<id>>],
           TRUE>>

\* float(d2_value) and the link of dimension 2: <<store, completed>>
ValueTwo(I, name, id, v2) ==
    IF v2 = None THEN <<I, FALSE>>
    ELSE <<[I EXCEPT ![id].dimensionValue = <<F(v2[1])>>,
                     ![name].hasProblemDimension = Append(@, id)],
           TRUE>>

\* add_problem from the shape instance to the link of dimension 1
Dimension1(I, name, form) ==
    ValueOne(DimensionStore(ShapeStore(I, name, form.shape[1]),
                            name \o <<"_">> \o Txt_dim1,
                            Strip(form.dim1_name), Txt_dim1),
             name, name \o <<"_">> \o Txt_dim1,
             ParseFloat(Strip(form.dim1_value)))

\* add_problem's "Dimension 2 Setup (if present)"
Dimension2(made, name, form) ==
    IF ~made[2] \/ Strip(form.dim2_value) = <<>> THEN made
    ELSE ValueTwo(DimensionStore(made[1], name \o <<"_">> \o Txt_dim2,
                                 Strip(form.dim2_name), Txt_dim2),
                  name, name \o <<"_">> \o Txt_dim2,
                  ParseFloat(Strip(form.dim2_value)))

\* the computed answer, if there is one, is attached to the problem
AnswerStore(I, name, correct_val) ==
    IF correct_val = None THEN I
    ELSE [I EXCEPT ![name].correctAnswer = <<F(correct_val[1])>>]

\* add_problem's "compute and attach correctAnswer"
AttachAnswer(made, name) ==
    IF ~made[2] THEN made
    ELSE <<AnswerStore(made[1], name, compute_answer(made[1], name)), TRUE>>

\* add_problem's try block once the shape class is found: <<store, completed>>
CreateProblem(I, name, form) ==
    AttachAnswer(Dimension2(Dimension1(I, name, form), name, form), name)


\* add_problem's initial validation: a field is missing or blank
MissingFields(form) ==
    \/ Strip(form.problem_name) = <<>>
    \/ form.shape = None \/ form.shape = Some(<<>>)
    \/ Strip(form.dim1_value) = <<>>

\* add_problem gives up: what was created stays in memory, nothing is saved
Failed(I, msg) ==
    /\ flash' = Flash(<<msg>>, None)
    /\ ind' = I
    /\ disk' = disk

\* the end of add_problem's try block
Created(made) ==
    IF ~made[2] THEN Failed(made[1], "invalid dimension")
    ELSE /\ flash' = Flash(<<"created">>, None)
         /\ ind' = made[1]
         /\ disk' = save_ontology(made[1])

\* add_problem once the Problem individual is created (store I)
CreateOutcome(I, form) ==
    IF ShapeLookup(I, form.shape[1]) = "none" THEN Failed(I, "unknown shape")
    ELSE IF ShapeLookup(I, form.shape[1]) = "individual"
    THEN Failed(I, "failed to create")   \* calling an individual: TypeError
    ELSE Created(CreateProblem(I, Strip(form.problem_name), form))

\* add_problem past its checks: the individuals are created, and the store
\* is saved if nothing fails on the way
add_problem_create(form) ==
    CreateOutcome(Instantiate(ind, Txt_Problem, Strip(form.problem_name)),
                  form)


\* a variant of add_problem without the check for an existing individual
add_problem_unchecked(form) ==
    /\ view' = view /\ now' = now /\ call' = call /\ req' = req
    /\ IF MissingFields(form)
       THEN /\ flash' = Flash(<<"missing fields">>, None)
            /\ UNCHANGED <<ind, disk>>
       ELSE add_problem_create(form)

\* POST /add_problem
add_problem(form) ==
    /\ view' = view /\ now' = now /\ call' = call /\ req' = req
    /\ IF MissingFields(form)
       THEN /\ flash' = Flash(<<"missing fields">>, None)
            /\ UNCHANGED <<ind, disk>>
       ELSE IF get_individual(ind, Strip(form.problem_name)) # None
       THEN /\ flash' = Flash(<<"already exists">>, None)
            /\ UNCHANGED <<ind, disk>>
       ELSE add_problem_create(form)

\* the clock passes into the next second
Tick ==
    /\ now + 1 \in Seconds
    /\ now' = now + 1
    /\ UNCHANGED <<ind, disk, flash, view, call, req>>

-----------------------------------------------------------------------------
\* The running application: requests against a loaded ontology.

P0 == <<"p", "0">>
P1 == <<"p", "1">>

ProblemNames == {P0, P1}

\* form fields of problem_submit: texts that are numbers, texts that are
\* not, and the field left out
StudentFields     == {Some(<<"s", "1", " ">>), None}
NumericAnswers    == {Some(<<" ", "0">>), Some(<<"6", ".", "0">>)}
NonNumericAnswers == {Some(<<"a", "b", "c">>), None}
AnswerFields      == NumericAnswers \cup NonNumericAnswers

Form(n, s, n1, v1, n2, v2) ==
    [problem_name |-> n, shape |-> s, dim1_name |-> n1, dim1_value |-> v1,
     dim2_name |-> n2, dim2_value |-> v2]

\* forms posted to add_problem
AddForms ==
    {Form(<<" ", "p", "1">>, Some(Txt_Triangle), Txt_base, <<"3">>,
          <<"H">>, <<"4", " ">>),
     Form(P1, Some(<<"H", "e", "x">>), Txt_base, <<"3">>, <<>>, <<>>),
     Form(P1, Some(P0), Txt_base, <<"3">>, <<>>, <<>>),
     Form(P1, Some(Txt_Triangle), Txt_base, <<"a", "b", "c">>, <<>>, <<>>),
     Form(P1, Some(Txt_Triangle), Txt_base, <<"3">>, Txt_height, <<"x">>),
     Form(P1, None, Txt_base, <<"3">>, <<>>, <<>>),
     Form(P0, Some(Txt_Circle), Txt_radius, <<"1">>, <<>>, <<>>)}

\* the ontology as loaded: one problem whose answer cannot be computed (no
\* shape, no dimension) and which carries a stored answer
LoadedStore(stored) ==
    [n \in {P0} |->
       [NewIndividual(Txt_Problem) EXCEPT !.correctAnswer = <<stored>>]]

\* stored answers the file may hold: the float 0.0 and the text "6"
StoredAnswers == {F(0), S(<<"6">>)}

Init ==
    /\ \E stored \in StoredAnswers : ind = LoadedStore(stored)
    /\ disk = ind
    /\ now = 0
    /\ flash = Flash(<<>>, None)
    /\ view = None
    /\ call = None
    /\ req = NoRequests

Next ==
    \/ \E name \in ProblemNames, student \in StudentFields,
          answer \in AnswerFields : problem_submit(name, student, answer)
    \/ \E form \in AddForms : add_problem(form)
    \/ Tick

Spec == Init /\ [][Next]_vars

-----------------------------------------------------------------------------
\* The answer engine on loaded problems: the ontology file holds one problem
\* Q, drawn with its shape individual and its dimension individuals, and
\* the problem page is requested.

Q == <<"q">>

Drawn(n, v) == [dimensionName |-> n, dimensionValue |-> v]

\* dimension individuals a drawn problem is built from: named in either
\* case, by word or by letter, or unnamed; valued by a float as add_problem
\* stores it, by a numeric text, or by a text that is no number
DrawnNames  == {<<>>, <<Txt_length>>, << <<"W">> >>,
                << <<"B", "a", "s", "e">> >>, << <<"h">> >>}
DrawnValues == {<<F(5 * Scale)>>, <<S(<<"6">>)>>,
                <<S(<<"a", "b", "c">>)>>}
DrawnDims   == {Drawn(n, v) : n \in DrawnNames, v \in DrawnValues}

\* a dimension individual with no value at all, and one named for a circle
NoValueDim == Drawn(<<Txt_base>>, <<>>)
RadiusDim  == Drawn(<< <<"R">> >>, <<S(<<"2">>)>>)

RECURSIVE SeqsUpTo(_, _)
SeqsUpTo(set, n) ==
    IF n = 0 THEN {<<>>}
    ELSE LET shorter == SeqsUpTo(set, n - 1)
         IN  shorter \cup {Append(q, x) : q \in shorter, x \in set}

ShapeDraw(name, is_a) == Some([name |-> name, is_a |-> is_a])

Txt_sh == <<"s", "h">>

\* <<shape individual, dimension individuals, linking attribute>>
LoadedDraws ==
    {<<sh, dims, "hasProblemDimension">> :
        sh \in {ShapeDraw(Txt_sh, <<Txt_Rectangle>>),
                ShapeDraw(Txt_sh, <<Txt_Triangle>>)},
        dims \in SeqsUpTo(DrawnDims, MaxDims)}
    \cup
    {<<sh, dims, link>> :
        sh \in {ShapeDraw(Txt_sh, <<Txt_Circle>>),
                ShapeDraw(Txt_sh, <<Txt_Shape, Txt_Square>>),
                ShapeDraw(Txt_Triangle \o <<"_">> \o Txt_sh, <<Txt_Shape>>),
                ShapeDraw(Txt_sh, <<Txt_Shape>>),
                ShapeDraw(Txt_sh, <<Txt_Triangle>>),
                None},
        dims \in SeqsUpTo({RadiusDim, NoValueDim, Drawn(<<>>, <<F(Scale)>>)}, 1),
        link \in {"hasProblemDimension", "hasDimension", "inline"}}

DimId(i) == Q \o <<"_", "d">> \o IntStr(i)

LoadedProblem(draw) ==
    LET sh   == draw[1]
        dims == draw[2]
        link == draw[3]
        ids  == [i \in 1..Len(dims) |-> DimId(i)]
        linked == IF link = "inline" THEN <<>> ELSE ids
        prob == [NewIndividual(Txt_Problem) EXCEPT
                   !.hasShape = IF sh = None THEN <<>> ELSE <<sh[1].name>>,
                   !.hasProblemDimension =
                       IF link = "hasProblemDimension" THEN ids ELSE <<>>,
                   !.hasDimension = IF link = "hasDimension" THEN ids ELSE <<>>,
                   !.dimensionName =
                       IF link = "inline" /\ dims # <<>>
                       THEN dims[1].dimensionName ELSE <<>>,
                   !.dimensionValue =
                       IF link = "inline" /\ dims # <<>>
                       THEN dims[1].dimensionValue ELSE <<>>]
        names == {Q} \cup {linked[i] : i \in 1..Len(linked)}
                     \cup (IF sh = None THEN {} ELSE {sh[1].name})
    IN  [n \in names |->
           IF n = Q THEN prob
           ELSE IF sh # None /\ n = sh[1].name
           THEN [NewIndividual(Txt_Shape) EXCEPT !.is_a = sh[1].is_a]
           ELSE LET i == CHOOSE j \in 1..Len(linked) : linked[j] = n
                IN  [NewIndividual(Txt_Dimension) EXCEPT
                       !.dimensionName = dims[i].dimensionName,
                       !.dimensionValue = dims[i].dimensionValue]]

ComputeInit ==
    /\ \E draw \in LoadedDraws : ind = LoadedProblem(draw)
    /\ disk = ind
    /\ now = 0
    /\ flash = Flash(<<>>, None)
    /\ view = None
    /\ call = None
    /\ req = NoRequests

ComputeNext == \E name \in {Q, P0} : problem_view(name)

ComputeSpec == ComputeInit /\ [][ComputeNext]_vars

-----------------------------------------------------------------------------
\* Grading on its own: approx_equal called on two Python values.

approx_equal_call(a, b) ==
    /\ call' = Some([a |-> a, b |-> b, result |-> approx_equal(a, b)])
    /\ UNCHANGED <<ind, disk, now, flash, view, req>>

\* arguments: None, texts and floats
GradeInputs ==
    {None, Some(S(<<"a", "b", "c">>)), Some(S(<<>>)),
     Some(S(<<" ", "1", "0", ".", "2", " ">>)), Some(S(<<"-", ".", "0", "5">>)),
     Some(F(0)), Some(F(abs_tol)), Some(F(abs_tol + 1)),
     Some(F(10 * Scale)), Some(F(10 * Scale + 2 * (Scale \div 10))),
     Some(F(10 * Scale + 2 * (Scale \div 10) + 1)),
     Some(F(10 * Scale + 204 * (Scale \div 1000))),
     Some(F(0 - 10 * Scale)), Some(F(0 - 98 * (Scale \div 10)))}

GradeNext == \E a \in GradeInputs, b \in GradeInputs : approx_equal_call(a, b)

GradeSpec == Init /\ [][GradeNext]_vars

-----------------------------------------------------------------------------
\* Overlapping requests: problem_submit served by two threads of the
\* development server.  A thread may be switched between any two statements;
\* the handler is cut where that matters for the student's score: before the
\* score is read (line 361), before the attempts are counted (line 364),
\* before score and mastery are written (line 366) and before the save.

\* lines 337-358 of a request past its validation: the student and the
\* attempt are created and linked, and the thread goes on to read the score
Linked(r, name, student_name, answer_val, correct_val) ==
    IF answer_val = None
    THEN /\ flash' = Flash(<<"invalid answer">>, None)
         /\ UNCHANGED <<ind, req>>
    ELSE IF correct_val = None
    THEN /\ flash' = Flash(<<"cannot compute">>, None)
         /\ UNCHANGED <<ind, req>>
    ELSE /\ ind' = AttemptStore(StudentStore(ind, student_name),
                                AttemptName(student_name, name, now),
                                name, student_name, answer_val[1],
                                approx_equal(Some(F(answer_val[1])),
                                             Some(F(correct_val[1]))))
         /\ req' = [req EXCEPT ![r] =
                      RequestLocals("read", name, student_name, answer_val[1],
                                    correct_val[1],
                                    approx_equal(Some(F(answer_val[1])),
                                                 Some(F(correct_val[1]))),
                                    0, 0)]
         /\ flash' = flash

\* problem_submit in thread r, up to the append to student.attempts
submit_link(r, name, student, answer) ==
    /\ req[r].pc = "idle"
    /\ AttemptsLogged(ind) < MaxAttempts
    /\ UNCHANGED <<disk, now, view, call>>
    /\ IF get_individual(ind, name) = None
       THEN /\ flash' = Flash(<<"problem not found">>, None)
            /\ UNCHANGED <<ind, req>>
       ELSE IF student = None
       THEN /\ flash' = Flash(<<"internal server error">>, None)
            /\ UNCHANGED <<ind, req>>
       ELSE Linked(r, name, StudentName(student[1]), answer_value(answer),
                   CorrectValue(ind, name))

\* line 361 (with the increment of 366-367, which touches the local only)
submit_read(r) ==
    /\ req[r].pc = "read"
    /\ req' = [req EXCEPT
                 ![r].curr_score =
                     curr_score(ind[req[r].student_name].studentScore,
                                req[r].is_correct),
                 ![r].pc = "count"]
    /\ UNCHANGED <<ind, disk, now, flash, view, call>>

\* line 364
submit_count(r) ==
    /\ req[r].pc = "count"
    /\ req' = [req EXCEPT
                 ![r].num_attempts = num_attempts(ind, req[r].student_name),
                 ![r].pc = "write"]
    /\ UNCHANGED <<ind, disk, now, flash, view, call>>

\* a variant of submit_write that takes the score from the store at the
\* moment of writing, as a request holding a lock from read to write would
submit_write_fresh(r) ==
    /\ req[r].pc = "write"
    /\ ind' = ScoreStore(ind, req[r].student_name, req[r].is_correct)
    /\ req' = [req EXCEPT ![r].pc = "save"]
    /\ UNCHANGED <<disk, now, flash, view, call>>

\* lines 369-373: score and mastery are written from the locals
submit_write(r) ==
    /\ req[r].pc = "write"
    /\ ind' = [ind EXCEPT
                 ![req[r].student_name].studentScore = <<req[r].curr_score>>,
                 ![req[r].student_name].masteryLevel =
                     <<Ratio(req[r].curr_score,
                             Max(1, req[r].num_attempts))>>]
    /\ req' = [req EXCEPT ![r].pc = "save"]
    /\ UNCHANGED <<disk, now, flash, view, call>>

\* lines 383-390: the whole in-memory store is saved and the verdict flashed
submit_save(r) ==
    /\ req[r].pc = "save"
    /\ disk' = save_ontology(ind)
    /\ flash' = Flash(<<IF req[r].is_correct THEN "correct" ELSE "incorrect">>,
                      Some(Round3(req[r].correct_val)))
    /\ req' = [req EXCEPT ![r] = IdleRequest]
    /\ UNCHANGED <<ind, now, view, call>>

RaceNext ==
    \/ \E r \in Requests, name \in ProblemNames, student \in StudentFields,
          answer \in AnswerFields : submit_link(r, name, student, answer)
    \/ \E r \in Requests : submit_read(r)
    \/ \E r \in Requests : submit_count(r)
    \/ \E r \in Requests : submit_write(r)
    \/ \E r \in Requests : submit_save(r)
    \/ Tick

RaceSpec == Init /\ [][RaceNext]_vars

-----------------------------------------------------------------------------
\* Properties of the student record.

\* the Attempt individuals linked to student s
LinkedAttempts(I, s) == {I[s].attempts[i] : i \in 1..Len(I[s].attempts)}

\* a problem_submit request that was graded
GradedSubmit(name, student, answer) ==
    /\ flash'.msgs \in {<<"correct">>, <<"incorrect">>}
    /\ problem_submit(name, student, answer)

\* C1: in every reachable state each student's masteryLevel lies in [0,1]
\* and equals studentScore divided by the number of Attempt individuals
\* linked to the student, so that studentScore never exceeds that number;
\* submissions whose attempt names coincide are included (the clock need
\* not pass between two requests).
MasteryIsScoreOverAttempts ==
    \A s \in all_students(ind) :
        /\ ind[s].studentScore # <<>>
        /\ ind[s].masteryLevel # <<>>
        /\ ind[s].studentScore[1] <= Cardinality(LinkedAttempts(ind, s))
        /\ 0 <= ind[s].masteryLevel[1][1]
        /\ ind[s].masteryLevel[1][1] <= ind[s].masteryLevel[1][2]
        /\ ind[s].masteryLevel[1][1] * Cardinality(LinkedAttempts(ind, s))
             = ind[s].studentScore[1] * ind[s].masteryLevel[1][2]

\* two correct submissions of one second: a score of 2 on one Attempt
ScoreAboveAttempts ==
    \E s \in all_students(ind) :
        /\ ind[s].studentScore = <<2>>
        /\ Cardinality(LinkedAttempts(ind, s)) = 1

\* C2: problem_submit with an answer text that is no number creates no
\* Attempt and no Student, leaves every student's studentScore, masteryLevel
\* and attempts unchanged, and does not save the store.
NonNumericAnswerChangesNothing ==
    [][\A name \in ProblemNames, student \in StudentFields,
          answer \in NonNumericAnswers :
          problem_submit(name, student, answer) =>
            /\ all_attempts(ind') = all_attempts(ind)
            /\ all_students(ind') = all_students(ind)
            /\ \A s \in all_students(ind) :
                 /\ ind'[s].studentScore = ind[s].studentScore
                 /\ ind'[s].masteryLevel = ind[s].masteryLevel
                 /\ ind'[s].attempts = ind[s].attempts
            /\ disk' = disk]_vars

\* a non-numeric answer was turned down while a student with attempts exists
NonNumericAnswerRefused ==
    /\ flash.msgs = <<"invalid answer">>
    /\ \E s \in all_students(ind) : ind[s].attempts # <<>>

\* C3: add_problem with a name for which an individual exists is rejected
\* and leaves the store unchanged: nothing is created, no attribute is
\* changed, nothing is saved.
DuplicateNameChangesNothing ==
    [][\A form \in AddForms :
          (add_problem(form) /\ Strip(form.problem_name) \in DOMAIN ind) =>
            /\ ind' = ind
            /\ disk' = disk
            /\ flash'.msgs \in {<<"already exists">>, <<"missing fields">>}]_vars

\* a duplicate was turned down while the memory held what the file did not
DuplicateRefused ==
    /\ flash.msgs = <<"already exists">>
    /\ ind # disk

\* C4: attempts are append-only: every graded problem_submit adds exactly
\* one new Attempt individual, and no request removes an Attempt or changes
\* the problem link, the answer or the correctness flag of an earlier one.
AttemptsAppendOnly ==
    [][/\ \A a \in all_attempts(ind) :
             /\ a \in all_attempts(ind')
             /\ ind'[a].attemptOf = ind[a].attemptOf
             /\ ind'[a].hasAnswer = ind[a].hasAnswer
             /\ ind'[a].isCorrect = ind[a].isCorrect
       /\ (\E name \in ProblemNames, student \in StudentFields,
              answer \in AnswerFields : GradedSubmit(name, student, answer))
            => Cardinality(all_attempts(ind'))
                 = Cardinality(all_attempts(ind)) + 1]_vars

\* two graded submissions, one Attempt individual
AttemptReused ==
    /\ Cardinality(all_attempts(ind)) = 1
    /\ \E s \in all_students(ind) : Len(ind[s].attempts) = 2

\* C5: in problem_submit with a numeric answer, when compute_answer gives
\* None the stored correctAnswer is graded against if it is a number (0
\* included); with neither, the request ends "cannot compute": no Attempt,
\* no Student, no score or mastery change, nothing recorded.
StoredAnswerFallback ==
    [][\A name \in ProblemNames, student \in StudentFields \ {None},
          answer \in NumericAnswers :
          (/\ name \in DOMAIN ind
           /\ compute_answer(ind, name) = None
           /\ problem_submit(name, student, answer)) =>
            IF /\ ind[name].correctAnswer # <<>>
               /\ PyFloat(ind[name].correctAnswer[1]) # None
            THEN /\ flash'.msgs \in {<<"correct">>, <<"incorrect">>}
                 /\ flash'.expected
                      = Some(Round3(PyFloat(ind[name].correctAnswer[1])[1]))
                 /\ (flash'.msgs = <<"correct">>)
                      = WithinTolerance(ParseFloat(answer[1]),
                                        PyFloat(ind[name].correctAnswer[1]))
                 /\ AttemptName(StudentName(student[1]), name, now)
                      \in all_attempts(ind')
            ELSE /\ flash'.msgs = <<"cannot compute">>
                 /\ ind' = ind
                 /\ disk' = disk]_vars

\* an answer was graded correct against the stored 0, and a later one could
\* not be graded at all
StoredZeroGraded ==
    /\ flash.msgs = <<"cannot compute">>
    /\ ind[P0].correctAnswer = <<F(0)>>
    /\ \E a \in all_attempts(ind) :
         ind[a].attemptOf = <<P0>> /\ ind[a].isCorrect = <<TRUE>>

\* C7: after a graded problem_submit the student's studentScore is the
\* previous score plus 1 if the attempt was correct, the attempts list is
\* one longer, and masteryLevel is the new score over max(1, length of the
\* list after the append), a denominator that is never 0.
ScoreAndMasteryUpdate ==
    [][\A name \in ProblemNames, student \in StudentFields \ {None},
          answer \in AnswerFields :
          GradedSubmit(name, student, answer) =>
            LET s      == StudentName(student[1])
                before == IF s \in DOMAIN ind THEN ind[s].attempts ELSE <<>>
                prev   == IF s \in DOMAIN ind /\ ind[s].studentScore # <<>>
                          THEN ind[s].studentScore[1] ELSE 0
                after  == ind'[s].attempts
                gain   == IF ind'[after[Len(after)]].isCorrect = <<TRUE>>
                          THEN 1 ELSE 0
            IN  /\ after = Append(before, AttemptName(s, name, now))
                /\ ind'[s].studentScore = <<prev + gain>>
                /\ ind'[s].masteryLevel[1][2] >= 1
                /\ ind'[s].masteryLevel[1][1] * Max(1, Len(after))
                     = (prev + gain) * ind'[s].masteryLevel[1][2]]_vars

\* one correct attempt out of two: mastery 1/2
HalfMastery ==
    \E s \in all_students(ind) :
        /\ ind[s].studentScore = <<1>>
        /\ Len(ind[s].attempts) = 2
        /\ ind[s].masteryLevel = <<<<1, 2>>>>

\* C10: an add_problem request that fails after its initial checks (unknown
\* shape, invalid dimension value, any other creation error) leaves the set
\* of individuals in memory as it was.
FailedAddLeavesNoIndividual ==
    [][\A form \in AddForms :
          (/\ add_problem(form)
           /\ flash'.msgs \in {<<"unknown shape">>, <<"invalid dimension">>,
                               <<"failed to create">>}) =>
            DOMAIN ind' = DOMAIN ind]_vars

\* the problem of a failed request stays in memory, unsaved
FailedAddLeftProblem ==
    /\ flash.msgs = <<"unknown shape">>
    /\ P1 \in all_problems(ind)
    /\ P1 \notin DOMAIN disk

-----------------------------------------------------------------------------
\* Properties of the answer engine, on the page of a loaded problem.

\* positions of the dimensions named by one of names, in lower case
NamedBy(dims, names) == {i \in 1..Len(dims) : Lower(dims[i][1]) \in names}

\* the float of the first dimension named by one of names, None if there is
\* none or its value is no number
ValueNamed(dims, names) ==
    IF NamedBy(dims, names) = {} THEN None
    ELSE FloatOrNone(dims[CHOOSE i \in NamedBy(dims, names) :
                            \A j \in NamedBy(dims, names) : i <= j][2])

\* C6: for a Triangle, compute_answer is None whenever no dimension is named
\* base/b or none is named height/h, whatever the number of dimensions, one
\* included; with both named it is 0.5 * base * height.
TriangleNeedsBaseAndHeight ==
    (view # None /\ view[1].shape_name = Some(Txt_Triangle)) =>
        IF \/ NamedBy(view[1].dims, {Txt_base, <<"b">>}) = {}
           \/ NamedBy(view[1].dims, {Txt_height, <<"h">>}) = {}
        THEN view[1].computed = None
        ELSE view[1].computed
               = HalfProduct(ValueNamed(view[1].dims, {Txt_base, <<"b">>}),
                             ValueNamed(view[1].dims, {Txt_height, <<"h">>}))

\* a triangle answer computed from a single dimension
TriangleFromOneDimension ==
    /\ view # None
    /\ view[1].shape_name = Some(Txt_Triangle)
    /\ Len(view[1].dims) = 1
    /\ view[1].computed # None

\* C8: for a Rectangle, compute_answer is length * width when both resolve
\* by name; else, with at least two dimensions, the product of the first two
\* values in declaration order; and None if the values are still unresolved
\* or not numeric.
RectangleByNameThenPosition ==
    (view # None /\ view[1].shape_name = Some(Txt_Rectangle)) =>
        IF /\ ValueNamed(view[1].dims, {Txt_length, <<"l">>}) # None
           /\ ValueNamed(view[1].dims, {Txt_width, <<"w">>}) # None
        THEN view[1].computed
               = Product(ValueNamed(view[1].dims, {Txt_length, <<"l">>}),
                         ValueNamed(view[1].dims, {Txt_width, <<"w">>}))
        ELSE IF Len(view[1].dims) >= 2
        THEN view[1].computed
               = Product(FloatOrNone(view[1].dims[1][2]),
                         FloatOrNone(view[1].dims[2][2]))
        ELSE view[1].computed = None

\* a rectangle answer computed from a single dimension
RectangleFromOneDimension ==
    /\ view # None
    /\ view[1].shape_name = Some(Txt_Rectangle)
    /\ Len(view[1].dims) = 1
    /\ view[1].computed # None

-----------------------------------------------------------------------------
\* Properties of grading.

\* the number an argument of approx_equal stands for, None if it stands for
\* none: read off the arguments drawn, not converted
NumberOf(x) ==
    IF x = None THEN None
    ELSE IF x[1].kind = "float" THEN Some(x[1].v)
    ELSE IF x[1].s = <<" ", "1", "0", ".", "2", " ">>
    THEN Some(102 * (Scale \div 10))
    ELSE IF x[1].s = <<"-", ".", "0", "5">> THEN Some(0 - 5 * (Scale \div 100))
    ELSE None

\* C9: approx_equal(a, b) is true iff a and b are numbers and
\* |a - b| <= max(0.05, 0.02 * |b|); an argument that is no number gives
\* false.  (Both sides of the comparison are multiplied by 100.)
ApproxEqualContract ==
    call # None =>
        call[1].result
          = (/\ NumberOf(call[1].a) # None
             /\ NumberOf(call[1].b) # None
             /\ 100 * Abs(NumberOf(call[1].a)[1] - NumberOf(call[1].b)[1])
                  <= Max(5 * Scale, 2 * Abs(NumberOf(call[1].b)[1])))

\* a pair accepted in one order that the other order refuses
AcceptedOneWayOnly ==
    /\ call # None
    /\ call[1].result
    /\ ~approx_equal(call[1].b, call[1].a)

-----------------------------------------------------------------------------
\* Properties of overlapping requests.

\* the Attempt individuals linked to student s that are marked correct
CorrectAttempts(I, s) ==
    {a \in LinkedAttempts(I, s) : I[a].isCorrect = <<TRUE>>}

\* C11: requests are not isolated from each other.  While one problem_submit
\* request stands between its read of studentScore and its write, nothing
\* keeps another request from reading the same score; and the write stores
\* the score the request read (plus its own gain) and the mastery computed
\* from it over whatever the store holds by then: the last writer wins.
RequestsNotIsolated ==
    /\ [](\A r \in Requests, q \in Requests :
            (req[r].pc \in {"count", "write"} /\ req[q].pc = "read")
              => ENABLED submit_read(q))
    /\ [][\A r \in Requests :
            submit_write(r) =>
              /\ ind'[req[r].student_name].studentScore
                   = <<req[r].curr_score>>
              /\ ind'[req[r].student_name].masteryLevel
                   = <<Ratio(req[r].curr_score,
                             Max(1, req[r].num_attempts))>>]_vars

\* both requests are over and saved, and the student's score is smaller than
\* the number of the student's attempts marked correct
LostUpdate ==
    /\ req = NoRequests
    /\ disk = ind
    /\ \E s \in all_students(ind) :
         ind[s].studentScore[1] < Cardinality(CorrectAttempts(ind, s))

====
